---------------------------- MODULE Spec2Model ----------------------------
(***************************************************************************)
(* A model of src/src/main.rs: a two-language (Crk / Eng) word classifier  *)
(* over boundary-aware character digraphs.                                 *)
(*                                                                         *)
(* Text is a sequence of Unicode code points (Rust `char`s).  The model    *)
(* covers the code points below U+0100 and U+0130; every alphabet below    *)
(* is drawn from that range.                                               *)
(*                                                                         *)
(* Four specifications share the variables:                                *)
(*   Spec     main(): open and read both word lists, prune, then classify  *)
(*            the lines of standard input.                                 *)
(*   SpecFn   the tokenizer functions (line_to_word, digraphs_of, the      *)
(*            Display of a Token) applied to any bounded text.             *)
(*   SpecU32  prune_features, log_prob and classify on tables whose u32    *)
(*            counters reach the ends of their range.                      *)
(*   SpecTrain  the training loop going on from such a table.              *)
(***************************************************************************)
EXTENDS Integers, Sequences, FiniteSets, Bags, TLC

VARIABLES
  pc,            \* where the program is
  features,      \* Classifier.features : Digraph -> Occurance
  line,          \* the line last read (a training line or a query)
  word,          \* line_to_word(line)
  digraphs,      \* digraphs_of(word)
  log_prob_crk,  \* classify: the Crk running sum
  log_prob_eng,  \* classify: the Eng running sum
  rounding,      \* classify: how two near sums compare in f64 (sign of Crk - Eng)
  guessed_lang,  \* classify's result, "none" before the first query
  numerator,     \* log_prob: (occurance.of(language) + 1)
  denominator,   \* log_prob: (occurance.total() + self.num_features())
  token,         \* the Token last displayed
  rendered,      \* the character written for it
  asked,         \* the <<digraph, language>> of the last log_prob call
  witnessed,     \* history: Digraph -> number of lines per language holding
                 \* it, as numbers of any size
  crkLines,      \* history: bag of the lines read from "itwewina"
  engLines,      \* history: bag of the lines read from "words"
  pruneCalls     \* history: number of prune_features calls

vars == <<pc, features, line, word, digraphs, log_prob_crk, log_prob_eng,
          rounding, guessed_lang, numerator, denominator, token, rendered, asked,
          witnessed, crkLines, engLines, pruneCalls>>

----------------------------------------------------------------------------
(* Bounds of the model.                                                    *)

\* longest line of the word lists and of standard input drawn over the
\* alphabet (the sample lines are longer)
MaxLineLen == 1
\* longest text given to the tokenizer functions (the sample texts are longer)
MaxTextLen == 3
\* number of training lines read, both word lists together
MaxLines == 2

----------------------------------------------------------------------------
(* u32: two 16-bit limbs, so that the whole range 0 .. 2^32-1 is in reach  *)
(* of TLC's integers.                                                     *)

Limb == 256 * 256

U32 == [hi : 0..(Limb - 1), lo : 0..(Limb - 1)]

ToU32(n) == [hi |-> (n \div Limb) % Limb, lo |-> n % Limb]

U32Zero == ToU32(0)
U32One == ToU32(1)
U32Max == [hi |-> Limb - 1, lo |-> Limb - 1]

\* a + b of two u32 with overflow checks off: the sum modulo 2^32
U32Add(a, b) ==
  LET lo == a.lo + b.lo
      hi == a.hi + b.hi + (lo \div Limb)
  IN  [hi |-> hi % Limb, lo |-> lo % Limb]

\* a + b leaves the range: with overflow checks on, the addition panics
U32Overflows(a, b) == a.hi + b.hi + ((a.lo + b.lo) \div Limb) >= Limb

U32Less(a, b) == a.hi < b.hi \/ (a.hi = b.hi /\ a.lo < b.lo)

\* the outcomes of a step one of whose additions overflowed: a panic
\* (overflow checks on, the debug profile) or the wrapped value (off)
PanicChoices(overflowed) == IF overflowed THEN BOOLEAN ELSE {FALSE}

----------------------------------------------------------------------------
(* Token, Digraph, Language, Occurance.                                    *)

Start == <<"Start">>
End == <<"End">>
Char(c) == <<"Char", c>>

IsChar(t) == t[1] = "Char"

Digraph(a, b) == <<a, b>>

Language == {"Crk", "Eng"}

Occurance(c, e) == [crk |-> c, eng |-> e]

\* Occurance::total
total(occ) == U32Add(occ.crk, occ.eng)

total_overflows(occ) == U32Overflows(occ.crk, occ.eng)

\* Occurance::of
of(occ, language) == IF language = "Crk" THEN occ.crk ELSE occ.eng

----------------------------------------------------------------------------
(* line_to_word.                                                           *)

TrimCharsNoNewline == {33, 63, 32}

\* the characters of "!? \n"
TrimChars == {33, 63, 32, 10}

\* str::trim_right_matches: drop the longest suffix of matching characters
RECURSIVE trim_right_matches(_, _)
trim_right_matches(s, set) ==
  IF s # <<>> /\ s[Len(s)] \in set
  THEN trim_right_matches(SubSeq(s, 1, Len(s) - 1), set)
  ELSE s

\* ch.to_lowercase().nth(0).unwrap(), on the code points the model covers:
\* A-Z, the Latin-1 capitals (U+00D7 is the multiplication sign), and
\* U+0130, whose lowercase is 'i' followed by U+0307
to_lowercase_first(ch) ==
  IF ch \in 65..90 THEN ch + 32
  ELSE IF ch \in (192..222) \ {215} THEN ch + 32
  ELSE IF ch = 304 THEN 105
  ELSE ch

\* the match of line 96: the four circumflex vowels lose their accent
strip_circumflex(ch) ==
  CASE ch = 226 -> 97
    [] ch = 234 -> 101
    [] ch = 238 -> 105
    [] ch = 244 -> 111
    [] OTHER -> ch

line_to_word(l) ==
  LET w == trim_right_matches(l, TrimChars)
  IN  [i \in 1..Len(w) |-> strip_circumflex(to_lowercase_first(w[i]))]

----------------------------------------------------------------------------
(* digraphs_of.                                                            *)

\* assert!(!text.ends_with('\n')) fails
digraphs_of_panics(text) == text # <<>> /\ text[Len(text)] = 10

\* the for loop of lines 121-125, from character i on
RECURSIVE digraphs_loop(_, _, _, _)
digraphs_loop(text, i, last_char, acc) ==
  IF i > Len(text)
  THEN [digraphs |-> acc, last_char |-> last_char]
  ELSE LET this_char == Char(text[i])
       IN  digraphs_loop(text, i + 1, this_char,
                         acc \cup {Digraph(last_char, this_char)})

digraphs_of_without_end(text) ==
  IF text = <<>> THEN {} ELSE digraphs_loop(text, 1, Start, {}).digraphs

\* the value returned when the assertion holds
digraphs_of(text) ==
  IF text = <<>>
  THEN {}
  ELSE LET r == digraphs_loop(text, 1, Start, {})
       IN  r.digraphs \cup {Digraph(r.last_char, End)}

----------------------------------------------------------------------------
(* impl fmt::Display for Token.                                            *)

\* assert!(c != '^' || c != '$') fails
fmt_panics(t) == IsChar(t) /\ ~(t[2] # 94 \/ t[2] # 36)

\* the character written
fmt(t) ==
  CASE t = Start -> 94
    [] t = End -> 36
    [] OTHER -> t[2]

----------------------------------------------------------------------------
(* Classifier: training and pruning.                                       *)

\* Classifier::new
new == <<>>

\* HashMap::contains_key
contains_key(fs, d) == d \in DOMAIN fs

\* the entry(..).or_insert(Occurance { crk: 0, eng: 0 }) of lines 150-151
or_insert(fs, d) ==
  IF contains_key(fs, d)
  THEN fs
  ELSE [x \in DOMAIN fs \cup {d} |->
          IF x = d THEN Occurance(U32Zero, U32Zero) ELSE fs[x]]

\* the match of lines 152-155: occ.crk += 1 or occ.eng += 1
increment(occ, lang) ==
  IF lang = "Crk"
  THEN [occ EXCEPT !.crk = U32Add(occ.crk, U32One)]
  ELSE [occ EXCEPT !.eng = U32Add(occ.eng, U32One)]

\* the for loop of lines 149-156 over the digraphs still to visit
RECURSIVE count_loop(_, _, _)
count_loop(fs, ds, lang) ==
  IF ds = {}
  THEN fs
  ELSE LET d == CHOOSE x \in ds : TRUE
           withEntry == or_insert(fs, d)
       IN  count_loop([withEntry EXCEPT ![d] = increment(withEntry[d], lang)],
                      ds \ {d}, lang)

\* the tokens of a word between its two markers, in order
TokenSeq(w) == <<Start>> \o [i \in 1..Len(w) |-> Char(w[i])] \o <<End>>

\* the adjacent pairs of tokens of a word, by position
PairSeq(w) ==
  IF w = <<>>
  THEN <<>>
  ELSE [i \in 1..(Len(w) + 1) |-> <<TokenSeq(w)[i], TokenSeq(w)[i + 1]>>]

\* the pairs of a word as a set
AdjacentPairs(w) == {PairSeq(w)[i] : i \in 1..Len(PairSeq(w))}

\* one line of count_digraphs_in_file, after line_to_word: lines 149-156
count_word(fs, w, lang) == count_loop(fs, digraphs_of(w), lang)

\* the digraphs of the word whose increment of lines 153-154 leaves the u32
\* range
count_overflowing(fs, w, lang) ==
  {d \in digraphs_of(w) :
     contains_key(fs, d) /\ U32Overflows(of(fs[d], lang), U32One)}

\* an increment of lines 153-154 leaves the u32 range
count_overflows(fs, w, lang) == count_overflowing(fs, w, lang) # {}

\* the tables a panic of that increment may leave: the digraphs the HashSet
\* yielded before the panicking one are counted, the others are not
count_panicked(fs, w, lang) ==
  {count_loop(fs, visited, lang) :
     visited \in SUBSET (digraphs_of(w) \ count_overflowing(fs, w, lang))}

\* self.features.retain(|_digraph, occ| occ.total() > 1)
retain(fs) ==
  LET kept == {d \in DOMAIN fs : U32Less(U32One, total(fs[d]))}
  IN  [d \in kept |-> fs[d]]

\* a total() of line 166 leaves the u32 range
retain_overflows(fs) == \E d \in DOMAIN fs : total_overflows(fs[d])

\* the tables a panic of that total() may leave: the entries the HashMap
\* yielded before the panicking one are pruned, the others are not
retain_panicked(fs) ==
  {[d \in DOMAIN fs \ removed |-> fs[d]] :
     removed \in SUBSET {d \in DOMAIN fs :
                           /\ ~total_overflows(fs[d])
                           /\ ~U32Less(U32One, total(fs[d]))}}

----------------------------------------------------------------------------
(* Classifier: scoring.                                                    *)
(*                                                                         *)
(* An f64 sum of terms ln(n_i) - ln(d_i) is kept as what IEEE 754 makes of *)
(* it.  ln(0) is -inf, so a term is +inf when d_i = 0, -inf when n_i = 0   *)
(* and NaN when both are 0; a sum holding such a term is +inf, -inf or NaN *)
(* by the rules of f64 addition.  A sum of finite terms is kept as its     *)
(* exact value, the product of the n_i over the product of the d_i, with   *)
(* the number of its terms.  The f64 value of such a sum is within         *)
(* k(k+4)/2 * 2^-47 of the exact one, k being the number of terms (ln and  *)
(* each subtraction and addition round once, on magnitudes below 32 and    *)
(* 32k).  Two sums whose exact values are further apart than twice that    *)
(* compare as their exact values do; two sums that are closer may compare  *)
(* either way or equal, depending on the terms and on the iteration order  *)
(* of the HashSet: `rounding` carries that outcome.                        *)

\* natural numbers of any size: digits in base 2^15, the least significant
\* first, the last one not 0
Digit == 128 * 256

RECURSIVE Trim(_)
Trim(a) ==
  IF a # <<>> /\ a[Len(a)] = 0 THEN Trim(SubSeq(a, 1, Len(a) - 1)) ELSE a

RECURSIVE BigOfNat(_)
BigOfNat(n) == IF n = 0 THEN <<>> ELSE <<n % Digit>> \o BigOfNat(n \div Digit)

\* u32 into f64, which is exact (the .into() of lines 195-196)
BigOfU32(a) ==
  Trim(<<a.lo % Digit,
         (a.lo \div Digit) + 2 * (a.hi % (Digit \div 2)),
         a.hi \div (Digit \div 2)>>)

RECURSIVE BigAdd(_, _, _)
BigAdd(a, b, carry) ==
  IF a = <<>> /\ b = <<>>
  THEN IF carry = 0 THEN <<>> ELSE <<carry>>
  ELSE LET x == IF a = <<>> THEN 0 ELSE Head(a)
           y == IF b = <<>> THEN 0 ELSE Head(b)
           s == x + y + carry
       IN  <<s % Digit>> \o BigAdd(IF a = <<>> THEN a ELSE Tail(a),
                                   IF b = <<>> THEN b ELSE Tail(b),
                                   s \div Digit)

\* a times one digit m
RECURSIVE BigScale(_, _, _)
BigScale(a, m, carry) ==
  IF a = <<>>
  THEN IF carry = 0 THEN <<>> ELSE <<carry>>
  ELSE LET p == Head(a) * m + carry
       IN  <<p % Digit>> \o BigScale(Tail(a), m, p \div Digit)

RECURSIVE BigMul(_, _)
BigMul(a, b) ==
  IF a = <<>> \/ b = <<>>
  THEN <<>>
  ELSE IF Len(b) = 1
  THEN BigScale(a, Head(b), 0)
  ELSE BigAdd(BigScale(a, Head(b), 0), <<0>> \o BigMul(a, Tail(b)), 0)

BigLess(a, b) ==
  IF Len(a) # Len(b)
  THEN Len(a) < Len(b)
  ELSE \E i \in 1..Len(a) :
         /\ a[i] < b[i]
         /\ \A j \in (i + 1)..Len(a) : a[j] = b[j]

\* a times 2^47
RoundingScale(a) == IF a = <<>> THEN a ELSE <<0, 0, 0>> \o BigScale(a, 4, 0)

\* Classifier::num_features: self.features.len() as u32
num_features(fs) == ToU32(Cardinality(DOMAIN fs))

\* Classifier::log_prob: {} is None, {v} is Some(numerator.ln() - denominator.ln())
log_prob(fs, d, language) ==
  IF contains_key(fs, d)
  THEN {[num |-> U32Add(of(fs[d], language), U32One),
         den |-> U32Add(total(fs[d]), num_features(fs))]}
  ELSE {}

\* an addition of lines 195-196 (or the total() it calls) leaves the u32 range
log_prob_overflows(fs, d, language) ==
  /\ contains_key(fs, d)
  /\ \/ U32Overflows(of(fs[d], language), U32One)
     \/ total_overflows(fs[d])
     \/ U32Overflows(total(fs[d]), num_features(fs))

\* numerator.ln() - denominator.ln() of line 198: ln(0) is -inf, and
\* -inf - -inf is NaN
TermKind(term) ==
  IF term.num = U32Zero /\ term.den = U32Zero THEN "nan"
  ELSE IF term.num = U32Zero THEN "-inf"
  ELSE IF term.den = U32Zero THEN "inf"
  ELSE "finite"

\* the kind of the f64 sum of two values
AddKind(a, b) ==
  IF a = "nan" \/ b = "nan" \/ {a, b} = {"inf", "-inf"} THEN "nan"
  ELSE IF "inf" \in {a, b} THEN "inf"
  ELSE IF "-inf" \in {a, b} THEN "-inf"
  ELSE "finite"

\* 0.0
LogZero == [kind |-> "finite", num |-> <<1>>, den |-> <<1>>, terms |-> 0]

\* sum += term
LogAdd(sum, term) ==
  IF AddKind(sum.kind, TermKind(term)) = "finite"
  THEN [kind |-> "finite",
        num |-> BigMul(sum.num, BigOfU32(term.num)),
        den |-> BigMul(sum.den, BigOfU32(term.den)),
        terms |-> sum.terms + 1]
  ELSE [LogZero EXCEPT !.kind = AddKind(sum.kind, TermKind(term))]

\* of two finite sums, the exact value of a is above that of b
ExactGreater(a, b) == BigLess(BigMul(b.num, a.den), BigMul(a.num, b.den))

\* of two finite sums, the exact values are too far apart for the f64
\* roundings to change their order: with X/Y the quotient of the greater by
\* the smaller and k the terms of the longer sum,
\* ln(X/Y) >= (X - Y)/X > k(k+4) * 2^-47
Decisive(a, b) ==
  LET p == BigMul(a.num, b.den)
      q == BigMul(b.num, a.den)
      X == IF BigLess(p, q) THEN q ELSE p
      Y == IF BigLess(p, q) THEN p ELSE q
      k == IF a.terms > b.terms THEN a.terms ELSE b.terms
  IN  BigLess(BigAdd(RoundingScale(Y), BigMul(X, BigOfNat(k * (k + 4))), 0),
              RoundingScale(X))

\* how the f64 values a and b compare: "gt", "lt", "eq", "unordered" (one is
\* NaN), or "near" when the roundings decide
Order(a, b) ==
  IF a.kind = "nan" \/ b.kind = "nan" THEN "unordered"
  ELSE IF a.kind = "finite" /\ b.kind = "finite"
  THEN IF ~Decisive(a, b) THEN "near"
       ELSE IF ExactGreater(a, b) THEN "gt" ELSE "lt"
  ELSE IF a.kind = b.kind THEN "eq"
  ELSE IF a.kind = "inf" \/ b.kind = "-inf" THEN "gt"
  ELSE "lt"

\* the f64 test a > b, r being the sign of (f64 value of a - that of b) of
\* two near sums
F64Greater(a, b, r) ==
  LET o == Order(a, b) IN o = "gt" \/ (o = "near" /\ r > 0)

\* the f64 test a == b
F64Equal(a, b, r) ==
  LET o == Order(a, b) IN o = "eq" \/ (o = "near" /\ r = 0)

classify_skips_nothing(fs, d) == FALSE

\* line 175: skip digraphs we've never seen
classify_skips(fs, d) == ~contains_key(fs, d)

\* the for loop of lines 173-181 over the digraphs still to visit; `failed`
\* is the panic of an expect("digraph does not exist") on None
RECURSIVE classify_loop(_, _, _)
classify_loop(fs, ds, acc) ==
  IF ds = {}
  THEN acc
  ELSE LET d == CHOOSE x \in ds : TRUE
           lc == log_prob(fs, d, "Crk")
           le == log_prob(fs, d, "Eng")
       IN  IF classify_skips(fs, d)
           THEN classify_loop(fs, ds \ {d}, acc)
           ELSE IF lc = {} \/ le = {}
           THEN [acc EXCEPT !.failed = TRUE]
           ELSE classify_loop(fs, ds \ {d},
                  [acc EXCEPT
                     !.crk = LogAdd(acc.crk, CHOOSE v \in lc : TRUE),
                     !.eng = LogAdd(acc.eng, CHOOSE v \in le : TRUE)])

\* the two running sums after the loop
classify_sums(fs, ds) ==
  classify_loop(fs, ds, [crk |-> LogZero, eng |-> LogZero, failed |-> FALSE])

\* the two sums are the same f64 operations on the same values
SameTerms(fs, ds) ==
  \A d \in ds : contains_key(fs, d) => fs[d].crk = fs[d].eng

\* the ways the two sums may round against each other
Roundings(fs, ds) ==
  LET s == classify_sums(fs, ds)
  IN  IF ~s.failed /\ Order(s.crk, s.eng) = "near" /\ ~SameTerms(fs, ds)
      THEN {-1, 0, 1}
      ELSE {0}

decide_ties_to_crk(crk, eng, r) ==
  IF F64Greater(crk, eng, r) \/ F64Equal(crk, eng, r) THEN "Crk" ELSE "Eng"

\* lines 186-190
decide(crk, eng, r) == IF F64Greater(crk, eng, r) THEN "Crk" ELSE "Eng"

\* an addition of a log_prob call of the loop leaves the u32 range
classify_overflows(fs, ds) ==
  \E d \in ds, l \in Language : log_prob_overflows(fs, d, l)

----------------------------------------------------------------------------
(* Inputs.                                                                 *)

\* every text over an alphabet of at most n characters
Texts(alphabet, n) == UNION {[1..k -> alphabet] : k \in 0..n}

\* "acimosis"
Acimosis == <<97, 99, 105, 109, 111, 115, 105, 115>>
\* "puppy"
Puppy == <<112, 117, 112, 112, 121>>
\* "Mâmaskâc!", whose word "mamaskac" holds the digraph (m, a) twice
MamaskacLine == <<77, 226, 109, 97, 115, 107, 226, 99, 33>>
\* " Puppy! "
PuppyLine == <<32, 80, 117, 112, 112, 121, 33, 32>>
\* "NÊHIYAWÊWIN"
NehiyawewinLine == <<78, 202, 72, 73, 89, 65, 87, 202, 87, 73, 78>>
\* "nehiyawewin"
Nehiyawewin == <<110, 101, 104, 105, 121, 97, 119, 101, 119, 105, 110>>

\* the lines of the word lists and of standard input: BufRead::lines() never
\* yields a line holding '\n'.  Letters 'a' and 'B'.
Lines == Texts({97, 66}, MaxLineLen) \cup {Acimosis, Puppy, MamaskacLine}

\* the texts given to the tokenizer functions: 'a', 'Ê', ' ', '!', '\n',
\* '^' and '$'
FnTexts ==
  Texts({97, 202, 32, 33, 10, 94, 36}, MaxTextLen) \cup {PuppyLine, NehiyawewinLine}

----------------------------------------------------------------------------
(* Spec: main().                                                           *)

\* the panics, by their cause: expect("file not found"), a line that cannot
\* be read, the assertion of digraphs_of, expect("digraph does not exist"),
\* an addition with overflow, a println! that cannot write to standard
\* output, the assertion of Display
Panics ==
  {"panic_open", "panic_read", "panic_assert", "panic_expect",
   "panic_overflow", "panic_print", "panic_fmt"}

NoCounts == [crk |-> <<>>, eng |-> <<>>]

Init ==
  /\ pc = "open_crk"
  /\ features = new
  /\ line = <<>>
  /\ word = <<>>
  /\ digraphs = {}
  /\ log_prob_crk = LogZero
  /\ log_prob_eng = LogZero
  /\ rounding = 0
  /\ guessed_lang = "none"
  /\ numerator = U32Zero
  /\ denominator = U32Zero
  /\ token = Start
  /\ rendered = 0
  /\ asked = <<>>
  /\ witnessed = <<>>
  /\ crkLines = EmptyBag
  /\ engLines = EmptyBag
  /\ pruneCalls = 0

\* File::open(filename) of line 144 returns Ok
OpenFile ==
  /\ pc \in {"open_crk", "open_eng"}
  /\ pc' = IF pc = "open_crk" THEN "train_crk" ELSE "train_eng"
  /\ UNCHANGED <<features, line, word, digraphs, log_prob_crk, log_prob_eng,
                 rounding, guessed_lang, numerator, denominator, token,
                 rendered, asked, witnessed, crkLines, engLines, pruneCalls>>

\* File::open(filename).expect("file not found") panics
OpenFails ==
  /\ pc \in {"open_crk", "open_eng"}
  /\ pc' = "panic_open"
  /\ UNCHANGED <<features, line, word, digraphs, log_prob_crk, log_prob_eng,
                 rounding, guessed_lang, numerator, denominator, token,
                 rendered, asked, witnessed, crkLines, engLines, pruneCalls>>

\* the history of a training line: every digraph of the word, found by
\* position, witnessed once more in the language
Witness(ws, w, lang) ==
  [d \in DOMAIN ws \cup AdjacentPairs(w) |->
     LET old == IF d \in DOMAIN ws THEN ws[d] ELSE NoCounts
     IN  IF d \in AdjacentPairs(w)
         THEN [old EXCEPT ![IF lang = "Crk" THEN "crk" ELSE "eng"] =
                             BigAdd(@, <<>>, 1)]
         ELSE old]

\* one iteration of the loop of lines 146-157 on the line l
TrainLine(l) ==
  LET lang == IF pc = "train_crk" THEN "Crk" ELSE "Eng"
      w == line_to_word(l)
  IN  /\ pc \in {"train_crk", "train_eng"}
      /\ BagCardinality(crkLines) + BagCardinality(engLines) < MaxLines
      /\ line' = l
      /\ word' = w
      /\ crkLines' = IF lang = "Crk" THEN crkLines (+) SetToBag({l}) ELSE crkLines
      /\ engLines' = IF lang = "Eng" THEN engLines (+) SetToBag({l}) ELSE engLines
      /\ IF digraphs_of_panics(w)
         THEN /\ pc' = "panic_assert"
              /\ UNCHANGED <<features, digraphs, witnessed>>
         ELSE /\ digraphs' = digraphs_of(w)
              /\ witnessed' = Witness(witnessed, w, lang)
              /\ \E p \in PanicChoices(count_overflows(features, w, lang)) :
                   IF p
                   THEN /\ pc' = "panic_overflow"
                        /\ features' \in count_panicked(features, w, lang)
                   ELSE /\ pc' = pc
                        /\ features' = count_word(features, w, lang)
      /\ UNCHANGED <<log_prob_crk, log_prob_eng, rounding, guessed_lang,
                     numerator, denominator, token, rendered, asked,
                     pruneCalls>>

\* the lines of the file are exhausted: count_digraphs_in_file returns
EndOfFile ==
  /\ pc \in {"train_crk", "train_eng"}
  /\ pc' = IF pc = "train_crk" THEN "open_eng" ELSE "prune"
  /\ UNCHANGED <<features, line, word, digraphs, log_prob_crk, log_prob_eng,
                 rounding, guessed_lang, numerator, denominator, token,
                 rendered, asked, witnessed, crkLines, engLines, pruneCalls>>

\* line.expect("Couldn't get line") panics
TrainReadFails ==
  /\ pc \in {"train_crk", "train_eng"}
  /\ pc' = "panic_read"
  /\ UNCHANGED <<features, line, word, digraphs, log_prob_crk, log_prob_eng,
                 rounding, guessed_lang, numerator, denominator, token,
                 rendered, asked, witnessed, crkLines, engLines, pruneCalls>>

\* model.prune_features() of line 68
prune_features ==
  /\ pc = "prune"
  /\ pruneCalls' = pruneCalls + 1
  /\ \E p \in PanicChoices(retain_overflows(features)) :
       IF p
       THEN /\ pc' = "panic_overflow"
            /\ features' \in retain_panicked(features)
       ELSE /\ pc' = "query"
            /\ features' = retain(features)
  /\ UNCHANGED <<line, word, digraphs, log_prob_crk, log_prob_eng, rounding,
                 guessed_lang, numerator, denominator, token, rendered, asked,
                 witnessed, crkLines, engLines>>

\* the result of the loop body of lines 75-78 on the line l, but for
\* features.  A panic loses the two sums and the result; `printed` is
\* whether the println! of lines 183, 184 and 78 could all write to standard
\* output.
Classified(l) ==
  LET w == line_to_word(l)
      ds == digraphs_of(w)
      s == classify_sums(features, ds)
  IN  /\ pc = "query"
      /\ line' = l
      /\ word' = w
      /\ IF digraphs_of_panics(w)
         THEN /\ pc' = "panic_assert"
              /\ UNCHANGED <<digraphs, log_prob_crk, log_prob_eng, rounding,
                             guessed_lang>>
         ELSE /\ digraphs' = ds
              /\ IF s.failed
                 THEN /\ pc' = "panic_expect"
                      /\ UNCHANGED <<log_prob_crk, log_prob_eng, rounding,
                                     guessed_lang>>
                 ELSE \E p \in PanicChoices(classify_overflows(features, ds)),
                         printed \in BOOLEAN :
                        IF p \/ ~printed
                        THEN /\ pc' = IF p THEN "panic_overflow"
                                          ELSE "panic_print"
                             /\ UNCHANGED <<log_prob_crk, log_prob_eng,
                                            rounding, guessed_lang>>
                        ELSE /\ log_prob_crk' = s.crk
                             /\ log_prob_eng' = s.eng
                             /\ rounding' \in Roundings(features, ds)
                             /\ guessed_lang' = decide(s.crk, s.eng, rounding')
                             /\ pc' = "query"
      /\ UNCHANGED <<numerator, denominator, token, rendered, asked, witnessed,
                     crkLines, engLines, pruneCalls>>

\* a classify that creates the entries it misses
ClassifyLineInserting ==
  \E l \in Lines :
    /\ Classified(l)
    /\ features' = count_loop(features, digraphs_of(line_to_word(l)), "Eng")

\* one iteration of the loop of lines 74-79: classify takes &self
ClassifyLine ==
  \E l \in Lines :
    /\ Classified(l)
    /\ UNCHANGED features

\* line.unwrap() of line 75 panics
QueryReadFails ==
  /\ pc = "query"
  /\ pc' = "panic_read"
  /\ UNCHANGED <<features, line, word, digraphs, log_prob_crk, log_prob_eng,
                 rounding, guessed_lang, numerator, denominator, token,
                 rendered, asked, witnessed, crkLines, engLines, pruneCalls>>

\* standard input is exhausted: main returns Ok(())
EndOfInput ==
  /\ pc = "query"
  /\ pc' = "done"
  /\ UNCHANGED <<features, line, word, digraphs, log_prob_crk, log_prob_eng,
                 rounding, guessed_lang, numerator, denominator, token,
                 rendered, asked, witnessed, crkLines, engLines, pruneCalls>>

Next ==
  \/ OpenFile
  \/ OpenFails
  \/ \E l \in Lines : TrainLine(l)
  \/ TrainReadFails
  \/ EndOfFile
  \/ prune_features
  \/ ClassifyLine
  \/ QueryReadFails
  \/ EndOfInput

Spec == Init /\ [][Next]_vars

----------------------------------------------------------------------------
(* SpecFn: the tokenizer functions on any bounded text.                    *)

InitFn ==
  /\ pc = "fn_start"
  /\ features = new
  /\ line \in FnTexts
  /\ word = <<>>
  /\ digraphs = {}
  /\ log_prob_crk = LogZero
  /\ log_prob_eng = LogZero
  /\ rounding = 0
  /\ guessed_lang = "none"
  /\ numerator = U32Zero
  /\ denominator = U32Zero
  /\ token = Start
  /\ rendered = 0
  /\ asked = <<>>
  /\ witnessed = <<>>
  /\ crkLines = EmptyBag
  /\ engLines = EmptyBag
  /\ pruneCalls = 0

\* word = line_to_word(&line)
Normalize ==
  /\ pc = "fn_start"
  /\ word' = line_to_word(line)
  /\ pc' = "fn_word"
  /\ UNCHANGED <<features, line, digraphs, log_prob_crk, log_prob_eng, rounding,
                 guessed_lang, numerator, denominator, token, rendered, asked,
                 witnessed, crkLines, engLines, pruneCalls>>

\* digraphs_of(&word)
Tokenize ==
  /\ pc = "fn_word"
  /\ IF digraphs_of_panics(word)
     THEN pc' = "panic_assert" /\ UNCHANGED digraphs
     ELSE pc' = "fn_digraphs" /\ digraphs' = digraphs_of(word)
  /\ UNCHANGED <<features, line, word, log_prob_crk, log_prob_eng, rounding,
                 guessed_lang, numerator, denominator, token, rendered, asked,
                 witnessed, crkLines, engLines, pruneCalls>>

\* write!(f, "{}", t) for a token t of one of the digraphs
Display ==
  /\ pc = "fn_digraphs"
  /\ \E d \in digraphs, i \in 1..2 :
       /\ token' = d[i]
       /\ IF fmt_panics(d[i])
          THEN pc' = "panic_fmt" /\ UNCHANGED rendered
          ELSE pc' = "fn_rendered" /\ rendered' = fmt(d[i])
  /\ UNCHANGED <<features, line, word, digraphs, log_prob_crk, log_prob_eng,
                 rounding, guessed_lang, numerator, denominator, asked,
                 witnessed, crkLines, engLines, pruneCalls>>

NextFn == Normalize \/ Tokenize \/ Display

SpecFn == InitFn /\ [][NextFn]_vars

----------------------------------------------------------------------------
(* SpecU32: pruning, log_prob and classify at the ends of the u32 range.   *)
(*                                                                         *)
(* The table after "itwewina" held n lines and "words" m lines, every line *)
(* the same word: each digraph of the word was raised n times for Crk and  *)
(* m times for Eng, one by one, and no addition has left the range yet.    *)
(* One more table holds counters that differ across its digraphs.          *)
(* The history of the lines is not kept in this specification; that of    *)
(* the digraphs is the one the counters of the table record.               *)

\* 0, 1, 2, 2^31, 2^32 - 2, 2^32 - 1
U32Samples ==
  {U32Zero, U32One, ToU32(2), [hi |-> Limb \div 2, lo |-> 0],
   [hi |-> Limb - 1, lo |-> Limb - 2], U32Max}

\* "a" and "ab"
LongListWords == {<<97>>, <<97, 98>>}

TableOf(w, n, m) ==
  IF n = U32Zero /\ m = U32Zero
  THEN new
  ELSE [d \in digraphs_of(w) |-> Occurance(n, m)]

\* the table after "itwewina" held 29999999 lines "a" and 2 lines "ba", and
\* "words" 30000000 lines "a": for the word "a" the exact values of the two
\* sums differ by less than the f64 roundings
NearTable ==
  [d \in digraphs_of(<<97>>) \cup digraphs_of(<<98, 97>>) |->
     IF d = <<Start, Char(97)>>
     THEN Occurance(ToU32(29999999), ToU32(30000000))
     ELSE IF d = <<Char(97), End>>
     THEN Occurance(ToU32(30000001), ToU32(30000000))
     ELSE Occurance(ToU32(2), U32Zero)]

\* the history of a table none of whose counters has left the u32 range
HistoryOf(fs) ==
  [d \in DOMAIN fs |->
     [crk |-> BigOfU32(fs[d].crk), eng |-> BigOfU32(fs[d].eng)]]

InitU32 ==
  /\ pc = "prune"
  /\ \E w \in LongListWords, n \in U32Samples, m \in U32Samples :
       \E fs \in {TableOf(w, n, m), NearTable} :
         /\ features = fs
         /\ word = IF fs = NearTable THEN <<97>> ELSE w
         /\ line = word
         /\ digraphs = digraphs_of(word)
  /\ log_prob_crk = LogZero
  /\ log_prob_eng = LogZero
  /\ rounding = 0
  /\ guessed_lang = "none"
  /\ numerator = U32Zero
  /\ denominator = U32Zero
  /\ token = Start
  /\ rendered = 0
  /\ asked = <<>>
  /\ witnessed = HistoryOf(features)
  /\ crkLines = EmptyBag
  /\ engLines = EmptyBag
  /\ pruneCalls = 0

\* self.log_prob(d, language) on the pruned table
LogProbCall ==
  /\ pc = "query"
  /\ \E d \in digraphs_of(<<97, 98>>), language \in Language :
       /\ asked' = <<d, language>>
       /\ IF log_prob(features, d, language) = {}
          THEN pc' = "lp_none" /\ UNCHANGED <<numerator, denominator>>
          ELSE /\ numerator' = (CHOOSE v \in log_prob(features, d, language) : TRUE).num
               /\ denominator' = (CHOOSE v \in log_prob(features, d, language) : TRUE).den
               /\ \E p \in PanicChoices(log_prob_overflows(features, d, language)) :
                    pc' = IF p THEN "panic_overflow" ELSE "lp_some"
  /\ UNCHANGED <<features, line, word, digraphs, log_prob_crk, log_prob_eng,
                 rounding, guessed_lang, token, rendered, witnessed, crkLines,
                 engLines, pruneCalls>>

NextU32 == prune_features \/ LogProbCall \/ ClassifyLine

SpecU32 == InitU32 /\ [][NextU32]_vars

----------------------------------------------------------------------------
(* SpecTrain: the training loop at the ends of the u32 range.              *)
(*                                                                         *)
(* The loop of count_digraphs_in_file goes on from a table of SpecU32:     *)
(* "itwewina" has held n lines so far and "words" m lines, every line the  *)
(* same word; the loop is reading "words", or "itwewina" when m is 0.  The *)
(* bags of lines hold the lines read from here on.                         *)

InitTrain ==
  /\ \E w \in LongListWords, n \in U32Samples, m \in U32Samples :
       /\ features = TableOf(w, n, m)
       /\ pc \in IF m = U32Zero THEN {"train_crk", "train_eng"}
                  ELSE {"train_eng"}
       /\ word = w
       /\ line = w
       /\ digraphs = digraphs_of(w)
  /\ log_prob_crk = LogZero
  /\ log_prob_eng = LogZero
  /\ rounding = 0
  /\ guessed_lang = "none"
  /\ numerator = U32Zero
  /\ denominator = U32Zero
  /\ token = Start
  /\ rendered = 0
  /\ asked = <<>>
  /\ witnessed = HistoryOf(features)
  /\ crkLines = EmptyBag
  /\ engLines = EmptyBag
  /\ pruneCalls = 0

NextTrain == \E l \in Lines : TrainLine(l)

SpecTrain == InitTrain /\ [][NextTrain]_vars

----------------------------------------------------------------------------
(* The claims.                                                             *)

\* a text holds a literal '^' or '$'
HasMarkerChar(text) == \E i \in 1..Len(text) : text[i] \in {94, 36}

\* no adjacent pair of tokens occurs at two positions of the word
NoRepeatedPair(w) ==
  \A i, j \in 1..Len(PairSeq(w)) : i # j => PairSeq(w)[i] # PairSeq(w)[j]

\* a counter of the table as a number, 0 for a missing entry
Count(fs, d, lang) == IF d \in DOMAIN fs THEN BigOfU32(of(fs[d], lang)) ELSE <<>>

\* the number of lines, of both languages, that held a digraph
Witnessings(d) == BigAdd(witnessed[d].crk, witnessed[d].eng, 0)

\* a query has been classified and the program is still running
HasClassified == pc \in {"query", "done"} /\ guessed_lang # "none"

\* C1 (SpecFn): line_to_word maps " Puppy! " to "puppy" and "NÊHIYAWÊWIN" to
\* "nehiyawewin".
C1_NormalizeExamples ==
  pc # "fn_start" =>
    /\ line = PuppyLine => word = Puppy
    /\ line = NehiyawewinLine => word = Nehiyawewin

\* C2 (SpecFn): digraphs_of(w) is empty for the empty word; otherwise it has
\* between 2 and Len(w)+1 elements, and exactly Len(w)+1 when no pair of
\* adjacent tokens (the Start and End pairs included) occurs twice in w;
\* digraphs_of("a") is {(Start,'a'), ('a',End)}.
C2_DigraphCount ==
  pc \in {"fn_digraphs", "fn_rendered"} =>
    /\ word = <<>> => digraphs = {}
    /\ word # <<>> =>
         /\ Cardinality(digraphs) >= 2
         /\ Cardinality(digraphs) <= Len(word) + 1
         /\ Cardinality(digraphs) = Len(word) + 1 <=> NoRepeatedPair(word)
    /\ word = <<97>> =>
         digraphs = {<<Start, Char(97)>>, <<Char(97), End>>}

\* a word with a repeated pair has been tokenized into fewer digraphs
C2_Witness ==
  /\ pc = "fn_digraphs"
  /\ ~NoRepeatedPair(word)
  /\ Cardinality(digraphs) = Len(word)

\* C3 (SpecU32): after training and prune_features the table holds exactly
\* the digraphs witnessed at least twice over both languages, each with both
\* counters as trained and total() their combined count; a digraph
\* witnessed once is absent, and no key is added.
C3_PruneKeepsWitnessedTwice ==
  (pruneCalls >= 1 /\ pc \notin Panics) =>
    /\ DOMAIN features \subseteq DOMAIN witnessed
    /\ \A d \in DOMAIN witnessed :
         /\ d \in DOMAIN features <=> BigLess(<<1>>, Witnessings(d))
         /\ d \in DOMAIN features =>
              /\ BigOfU32(features[d].crk) = witnessed[d].crk
              /\ BigOfU32(features[d].eng) = witnessed[d].eng
              /\ BigOfU32(total(features[d])) = Witnessings(d)

\* C4 (SpecU32): classify returns Crk exactly when the Crk running sum is
\* strictly greater than the Eng running sum; when the sums are equal it
\* returns Eng.
C4_Decision ==
  HasClassified =>
    /\ guessed_lang = "Crk" <=> F64Greater(log_prob_crk, log_prob_eng, rounding)
    /\ F64Equal(log_prob_crk, log_prob_eng, rounding) => guessed_lang = "Eng"

\* a tie of two sums that are not 0.0 has been resolved
C4_Witness ==
  /\ HasClassified
  /\ log_prob_crk # LogZero
  /\ F64Equal(log_prob_crk, log_prob_eng, rounding)
  /\ guessed_lang = "Eng"

\* C5 (Spec): a digraph of the query word that is no key of the table adds
\* nothing to either sum and raises no error: the sums are those of the
\* digraphs that are keys, and when none is a key both sums are 0.0 and
\* classify returns Eng.
C5_UnknownSkipped ==
  /\ pc # "panic_expect"
  /\ HasClassified =>
       /\ log_prob_crk = classify_sums(features, digraphs \cap DOMAIN features).crk
       /\ log_prob_eng = classify_sums(features, digraphs \cap DOMAIN features).eng
       /\ digraphs \cap DOMAIN features = {} =>
            /\ log_prob_crk = LogZero
            /\ log_prob_eng = LogZero
            /\ guessed_lang = "Eng"

\* Crk trained on "acimosis" alone, Eng on "puppy" alone, then "puppy" asked
C5_Witness ==
  /\ pc = "query"
  /\ crkLines = SetToBag({Acimosis})
  /\ engLines = SetToBag({Puppy})
  /\ line = Puppy
  /\ digraphs # {}
  /\ digraphs \cap DOMAIN features = {}
  /\ guessed_lang = "Eng"

\* C6 (SpecU32): for every key of the pruned table and each language,
\* log_prob's numerator c+1 and denominator t+F, computed in u32, are both
\* at least 1.
C6_LogOfPositive ==
  pc = "lp_some" =>
    /\ U32Less(U32Zero, numerator)
    /\ U32Less(U32Zero, denominator)

\* C7 (SpecFn): a literal '^' or '$' in the input is rejected before it is
\* tokenized, and a Token::Char never renders as the Start or End marker.
C7_MarkerRejected ==
  /\ HasMarkerChar(line) => pc \in {"fn_start", "fn_word"} \cup Panics
  /\ (pc = "fn_rendered" /\ IsChar(token)) => rendered \notin {fmt(Start), fmt(End)}

\* the place of a pc in the order of main()
PhaseRank(p) ==
  CASE p = "open_crk" -> 0
    [] p = "train_crk" -> 1
    [] p = "open_eng" -> 2
    [] p = "train_eng" -> 3
    [] p = "prune" -> 4
    [] p = "query" -> 5
    [] p = "done" -> 6
    [] OTHER -> 7

\* C8 (Spec): the phases run in the order training, prune_features exactly
\* once, classification, never back; no query is classified before the
\* pruning; and from the end of pruning on no step changes the table.
C8_PhaseOrder ==
  /\ [](/\ PhaseRank(pc) <= 4 => pruneCalls = 0 /\ guessed_lang = "none"
        /\ pc \in {"query", "done"} => pruneCalls = 1)
  /\ [][/\ PhaseRank(pc') >= PhaseRank(pc)
        /\ pc \in Panics \cup {"done"} => pc' = pc
        /\ pruneCalls' # pruneCalls => pc = "prune" /\ pruneCalls' = 1
        /\ pruneCalls >= 1 => features' = features]_vars

\* a query has been classified against a pruned table that is not empty
C8_Witness ==
  /\ HasClassified
  /\ pruneCalls = 1
  /\ features # new
  /\ digraphs \cap DOMAIN features # {}

\* a step that trains one line
TrainStep == crkLines' # crkLines \/ engLines' # engLines

\* C9 (SpecTrain): training one line with language L raises the L counter of each
\* distinct digraph of the normalized word by exactly 1, creating a missing
\* entry at 0/0 first, and changes neither the other counter of those
\* digraphs nor any other entry; an empty word changes nothing.
C9_TrainFrame ==
  [][TrainStep =>
       LET lang == IF pc = "train_crk" THEN "Crk" ELSE "Eng"
           other == IF pc = "train_crk" THEN "Eng" ELSE "Crk"
           pairs == AdjacentPairs(word')
       IN  /\ pc \in {"train_crk", "train_eng"}
           /\ (lang = "Crk") <=> (crkLines' # crkLines)
           /\ word' = line_to_word(line')
           /\ DOMAIN features' = DOMAIN features \cup pairs
           /\ \A d \in pairs :
                /\ Count(features', d, lang) =
                     BigAdd(Count(features, d, lang), <<>>, 1)
                /\ Count(features', d, other) = Count(features, d, other)
           /\ \A d \in DOMAIN features \ pairs : features'[d] = features[d]
           /\ word' = <<>> => features' = features]_vars

\* C10 (SpecFn): the word line_to_word returns never ends in a newline, so
\* the assertion of digraphs_of never fails on it.
C10_NoTrailingNewline ==
  /\ pc # "fn_start" => ~digraphs_of_panics(word)
  /\ pc # "panic_assert"

\* a line ending in a newline has been normalized and tokenized
C10_Witness ==
  /\ pc = "fn_digraphs"
  /\ line # <<>>
  /\ line[Len(line)] = 10
  /\ word # <<>>

=============================================================================
